---- MODULE Spec2Model ----
(***************************************************************************)
(* cv-camstream: the stereo capture coordinator (StereoCamStream) and its  *)
(* two capture worker threads (img_cap_thread), src/src/camstream.rs.      *)
(*                                                                         *)
(* Each worker owns the receiving end of a command channel (cmd_rx) and    *)
(* the sending end of a result channel (img_tx); the coordinator owns the  *)
(* opposite ends (left_tx/right_tx, left_rx/right_rx) and the two join     *)
(* handles.  Channels are std::sync::mpsc channels: unbounded FIFO, send   *)
(* fails once the receiver is dropped, recv returns the buffered messages  *)
(* first and fails once the buffer is empty and the sender is dropped.     *)
(***************************************************************************)
EXTENDS Integers, Sequences, FiniteSets, TLC

\* ------------------------------------------------------------------ bounds

\* capture() calls issued on one stream
MaxCalls == 3

\* how far a camera's timestamp may advance between two delivered frames
Ticks == {0, 1}

\* ------------------------------------------------------------------- state

VARIABLES
    cmd_q,      \* [Sides -> Seq(WorkerCmd)]: commands in flight to each worker
    img_q,      \* [Sides -> Seq(result)]: results in flight to the coordinator
    wstate,     \* [Sides -> "Idle" | "Capturing" | "Terminated" | "Panicked"]
    wcur,       \* [Sides -> the capture() call whose command is being serviced]
    clock,      \* [Sides -> last timestamp the camera reported]
    camHung,    \* [Sides -> the camera's acquisition call never returns]
    pc,         \* where the coordinator's caller stands
    alive,      \* the StereoCamStream still exists (its channel ends are open)
    call,       \* number of capture() calls issued so far
    left,       \* capture()'s local `left` between the two receives
    stopRet,    \* what stop() returned ("none" before it returns)
    \* history (ghost) variables, read only by the properties
    hist,       \* per capture() call: its return value and what it consumed
    sent,       \* [Sides -> calls whose Capture command reached the channel]
    produced,   \* [Sides -> every result message the worker sent, in order]
    stops,      \* [Sides -> number of Stop commands the worker received]
    stopBehind, \* [Sides -> unfinished Captures when Stop was sent, -1 if none]
    stopDead,   \* a worker thread was already over when stop() was called
    \* the other components of the crate
    builder,    \* the StereoStreamBuilder being configured and what build() did
    rect        \* one RectifParams conversion / rectify / linterp_pixels call

vars == <<cmd_q, img_q, wstate, wcur, clock, camHung, pc, alive, call, left,
          stopRet, hist, sent, produced, stops, stopBehind, stopDead,
          builder, rect>>

\* a running stream touches neither the builder nor the rectifier's test bench
offStream == <<builder, rect>>

\* what a worker step leaves alone
coordVars == <<pc, alive, call, left, stopRet, hist, sent, stopBehind, stopDead,
               offStream>>

\* everything a StereoCamStream and its workers consist of
streamVars == <<cmd_q, img_q, wstate, wcur, clock, camHung, pc, alive, call, left,
                stopRet, hist, sent, produced, stops, stopBehind, stopDead>>

Sides == {"L", "R"}

\* ---------------------------------------------------------------- messages

\* WorkerCmd::Capture, tagged with the capture() call that sent it
Capture(c) == [type |-> "Capture", call |-> c]

\* WorkerCmd::Stop
Stop == [type |-> "Stop", call |-> 0]

NoMsg == [kind |-> "none", side |-> "none", call |-> 0, ts |-> 0]

\* Ok((img, timestamp)): the image is identified by the camera and the call
\* whose command it was acquired for
OkMsg(s, c, t) == [kind |-> "Ok", side |-> s, call |-> c, ts |-> t]

\* Err(e): the error value is identified by its variant and its origin
ErrMsg(e, s, c) == [kind |-> e, side |-> s, call |-> c, ts |-> 0]

IsOk(m) == m.kind = "Ok"

\* mutant: the two results are crossed when the frame is assembled
StereoFrame_Swapped(l, r) ==
    [kind |-> "Frame", err |-> "none", cause |-> NoMsg,
     left |-> <<r.side, r.call>>, right |-> <<l.side, l.call>>,
     left_timestamp |-> r.ts, right_timestamp |-> l.ts]

\* Result<StereoFrame>: Ok(StereoFrame {left, right, left_timestamp, right_timestamp})
StereoFrame(l, r) ==
    [kind |-> "Frame", err |-> "none", cause |-> NoMsg,
     left |-> <<l.side, l.call>>, right |-> <<r.side, r.call>>,
     left_timestamp |-> l.ts, right_timestamp |-> r.ts]

NoImg == <<"none", 0>>

\* Err(e) passed on from a worker's result
WorkerErr(m) ==
    [kind |-> "Err", err |-> m.kind, cause |-> m,
     left |-> NoImg, right |-> NoImg, left_timestamp |-> 0, right_timestamp |-> 0]

\* Err(Error::ChannelSendError), Err(Error::ChannelReceiveError(_))
ChannelErr(e) ==
    [kind |-> "Err", err |-> e, cause |-> NoMsg,
     left |-> NoImg, right |-> NoImg, left_timestamp |-> 0, right_timestamp |-> 0]

Pending ==
    [kind |-> "Pending", err |-> "none", cause |-> NoMsg,
     left |-> NoImg, right |-> NoImg, left_timestamp |-> 0, right_timestamp |-> 0]

\* ---------------------------------------------------------------- channels

\* the worker thread is over: its cmd_rx and img_tx are dropped
Dead(s) == wstate[s] \in {"Terminated", "Panicked"}

\* Sender::send appends to the queue
Enqueue(q, m) == Append(q, m)

\* Receiver::recv takes the oldest message
Front(q) == Head(q)
Rest(q) == Tail(q)

Last(q) == q[Len(q)]

Captures(q) == Len(SelectSeq(q, LAMBDA c : c.type = "Capture"))

\* Captures sent to worker s that have produced no result yet
Unfinished(s) == Len(sent[s]) - Len(produced[s])

\* ------------------------------------------------- builder (builder.rs)

\* rscam::Config::default(), as the setters' documentation states it
DefaultConfig ==
    [interval |-> <<1, 10>>, resolution |-> <<640, 480>>, format |-> "YUYV",
     field |-> "FIELD_NONE", nbuffers |-> 2]

\* no builder yet: CamStreamBuilder::new() has not been turned into a stereo builder
NoBuilder ==
    [state |-> "none", left_path |-> "None", right_path |-> "None",
     img_format |-> "None", left_config |-> DefaultConfig,
     right_config |-> DefaultConfig, err |-> "none",
     opened |-> {}, started |-> {}, spawned |-> FALSE, ncalls |-> 0]

\* the rectifier's test bench is idle
NoRect == [pc |-> "idle"]

\* -------------------------------------------------------------------- Init

Init ==
    /\ builder = NoBuilder
    /\ rect = NoRect
    /\ cmd_q = [s \in Sides |-> <<>>]
    /\ img_q = [s \in Sides |-> <<>>]
    /\ wstate = [s \in Sides |-> "Idle"]
    /\ wcur = [s \in Sides |-> 0]
    /\ clock = [s \in Sides |-> 0]
    /\ camHung = [s \in Sides |-> FALSE]
    /\ pc = "idle"
    /\ alive = TRUE
    /\ call = 0
    /\ left = NoMsg
    /\ stopRet = "none"
    /\ hist = <<>>
    /\ sent = [s \in Sides |-> <<>>]
    /\ produced = [s \in Sides |-> <<>>]
    /\ stops = [s \in Sides |-> 0]
    /\ stopBehind = [s \in Sides |-> -1]
    /\ stopDead = FALSE

\* ------------------------------------------------- img_cap_thread (worker)

\* img_tx.send(..).expect(..) followed by the next loop iteration: the message
\* is queued and the worker is Idle again; with the receiver dropped the send
\* fails and expect() panics the thread.
WorkerSend(s, m) ==
    /\ IF alive
       THEN /\ img_q' = [img_q EXCEPT ![s] = Enqueue(@, m)]
            /\ produced' = [produced EXCEPT ![s] = Append(@, m)]
            /\ wstate' = [wstate EXCEPT ![s] = "Idle"]
            /\ cmd_q' = cmd_q
       ELSE /\ wstate' = [wstate EXCEPT ![s] = "Panicked"]
            /\ cmd_q' = [cmd_q EXCEPT ![s] = <<>>]
            /\ UNCHANGED <<img_q, produced>>
    /\ wcur' = [wcur EXCEPT ![s] = 0]

\* cmd_rx.recv() returns Ok(WorkerCmd::Capture): cam.capture() is entered
img_cap_thread_RecvCapture(s) ==
    /\ wstate[s] = "Idle"
    /\ cmd_q[s] # <<>>
    /\ Front(cmd_q[s]).type = "Capture"
    /\ wstate' = [wstate EXCEPT ![s] = "Capturing"]
    /\ wcur' = [wcur EXCEPT ![s] = Front(cmd_q[s]).call]
    /\ cmd_q' = [cmd_q EXCEPT ![s] = Rest(@)]
    /\ UNCHANGED <<img_q, clock, camHung, produced, stops, coordVars>>

\* mutant: a queued Stop is honoured ahead of the Capture commands before it
img_cap_thread_RecvStop_Priority(s) ==
    /\ wstate[s] = "Idle"
    /\ \E k \in 1..Len(cmd_q[s]) : cmd_q[s][k].type = "Stop"
    /\ wstate' = [wstate EXCEPT ![s] = "Terminated"]
    /\ stops' = [stops EXCEPT ![s] = @ + 1]
    /\ cmd_q' = [cmd_q EXCEPT ![s] = <<>>]
    /\ UNCHANGED <<img_q, wcur, clock, camHung, produced, coordVars>>

\* cmd_rx.recv() returns Ok(WorkerCmd::Stop): break, the thread completes
img_cap_thread_RecvStop(s) ==
    /\ wstate[s] = "Idle"
    /\ cmd_q[s] # <<>>
    /\ Front(cmd_q[s]).type = "Stop"
    /\ wstate' = [wstate EXCEPT ![s] = "Terminated"]
    /\ stops' = [stops EXCEPT ![s] = @ + 1]
    /\ cmd_q' = [cmd_q EXCEPT ![s] = <<>>]
    /\ UNCHANGED <<img_q, wcur, clock, camHung, produced, coordVars>>

\* cmd_rx.recv() returns Err: the queue is empty and the sender is dropped,
\* `while let` ends and the thread completes
img_cap_thread_RecvClosed(s) ==
    /\ wstate[s] = "Idle"
    /\ cmd_q[s] = <<>>
    /\ ~alive
    /\ wstate' = [wstate EXCEPT ![s] = "Terminated"]
    /\ UNCHANGED <<cmd_q, img_q, wcur, clock, camHung, produced, stops, coordVars>>

\* mutant: `break` instead of `continue` after the capture error is sent
img_cap_thread_CaptureFail_Break(s) ==
    /\ wstate[s] = "Capturing"
    /\ ~camHung[s]
    /\ alive
    /\ LET e == ErrMsg("CameraCaptureError", s, wcur[s])
       IN  /\ img_q' = [img_q EXCEPT ![s] = Enqueue(@, e)]
           /\ produced' = [produced EXCEPT ![s] = Append(@, e)]
    /\ wstate' = [wstate EXCEPT ![s] = "Terminated"]
    /\ wcur' = [wcur EXCEPT ![s] = 0]
    /\ cmd_q' = [cmd_q EXCEPT ![s] = <<>>]
    /\ UNCHANGED <<clock, camHung, stops, coordVars>>

\* cam.capture() returns Err(e): send Err(CameraCaptureError(e)); continue
img_cap_thread_CaptureFail(s) ==
    /\ wstate[s] = "Capturing"
    /\ ~camHung[s]
    /\ WorkerSend(s, ErrMsg("CameraCaptureError", s, wcur[s]))
    /\ UNCHANGED <<clock, camHung, stops, coordVars>>

\* mutant: the `continue` after the decode error is missing, so the loop body
\* goes on and sends an image for the same command as well
img_cap_thread_DecodeFail_NoContinue(s) ==
    /\ wstate[s] = "Capturing"
    /\ ~camHung[s]
    /\ alive
    /\ LET e == ErrMsg("ImageConversionError", s, wcur[s])
           i == OkMsg(s, wcur[s], clock[s])
       IN  /\ img_q' = [img_q EXCEPT ![s] = Enqueue(Enqueue(@, e), i)]
           /\ produced' = [produced EXCEPT ![s] = Append(Append(@, e), i)]
    /\ wstate' = [wstate EXCEPT ![s] = "Idle"]
    /\ wcur' = [wcur EXCEPT ![s] = 0]
    /\ UNCHANGED <<cmd_q, clock, camHung, stops, coordVars>>

\* cam.capture() returns a frame that rscam_frame_to_dynamic_image rejects:
\* send Err(ImageConversionError(e)); continue
img_cap_thread_DecodeFail(s) ==
    /\ wstate[s] = "Capturing"
    /\ ~camHung[s]
    /\ WorkerSend(s, ErrMsg("ImageConversionError", s, wcur[s]))
    /\ UNCHANGED <<clock, camHung, stops, coordVars>>

\* cam.capture() returns a frame with timestamp t, it decodes (and is
\* rectified): send Ok((img, timestamp))
img_cap_thread_SendImage(s) ==
    /\ wstate[s] = "Capturing"
    /\ ~camHung[s]
    /\ \E d \in Ticks :
        /\ clock' = [clock EXCEPT ![s] = @ + d]
        /\ WorkerSend(s, OkMsg(s, wcur[s], clock[s] + d))
    /\ UNCHANGED <<camHung, stops, coordVars>>

\* an external call of the loop body (camera driver, decoder) panics: the
\* thread unwinds and drops cmd_rx and img_tx
img_cap_thread_Panic(s) ==
    /\ wstate[s] = "Capturing"
    /\ ~camHung[s]
    /\ wstate' = [wstate EXCEPT ![s] = "Panicked"]
    /\ wcur' = [wcur EXCEPT ![s] = 0]
    /\ cmd_q' = [cmd_q EXCEPT ![s] = <<>>]
    /\ UNCHANGED <<img_q, clock, camHung, produced, stops, coordVars>>

\* cam.capture() is entered and never returns (no timeout is imposed)
CameraHang(s) ==
    /\ wstate[s] = "Capturing"
    /\ ~camHung[s]
    /\ camHung' = [camHung EXCEPT ![s] = TRUE]
    /\ UNCHANGED <<cmd_q, img_q, wstate, wcur, clock, produced, stops, coordVars>>

\* ------------------------------------------ StereoCamStream (coordinator)

\* what a coordinator step leaves alone in the workers
workerLocal == <<wstate, wcur, clock, camHung, produced, stops, offStream>>

NewCall == [ret |-> Pending, lrecv |-> NoMsg, rrecv |-> NoMsg,
            dead |-> \E s \in Sides : Dead(s)]

\* capture() returns r: the caller holds the stream again
Return(h, r) ==
    /\ hist' = [h EXCEPT ![Len(h)].ret = r]
    /\ pc' = "idle"
    /\ left' = NoMsg

\* self.left_tx.send(WorkerCmd::Capture).map_err(|_| ChannelSendError)?
capture_SendLeft ==
    /\ pc = "idle"
    /\ alive
    /\ call < MaxCalls
    /\ call' = call + 1
    /\ IF Dead("L")
       THEN /\ Return(Append(hist, NewCall), ChannelErr("ChannelSendError"))
            /\ UNCHANGED <<cmd_q, sent>>
       ELSE /\ cmd_q' = [cmd_q EXCEPT !["L"] = Enqueue(@, Capture(call + 1))]
            /\ sent' = [sent EXCEPT !["L"] = Append(@, call + 1)]
            /\ hist' = Append(hist, NewCall)
            /\ pc' = "capSendR"
            /\ left' = left
    /\ UNCHANGED <<img_q, alive, stopRet, stopBehind, stopDead, workerLocal>>

\* mutant: the right Capture is not sent before the left result is awaited
capture_SendRight_Skip ==
    /\ pc = "capSendR"
    /\ pc' = "capRecvL"
    /\ UNCHANGED <<cmd_q, sent, hist, left>>
    /\ UNCHANGED <<img_q, alive, call, stopRet, stopBehind, stopDead, workerLocal>>

\* mutant: the result of the right send is ignored (no `?`)
capture_SendRight_Ignore ==
    /\ pc = "capSendR"
    /\ IF Dead("R")
       THEN UNCHANGED <<cmd_q, sent>>
       ELSE /\ cmd_q' = [cmd_q EXCEPT !["R"] = Enqueue(@, Capture(call))]
            /\ sent' = [sent EXCEPT !["R"] = Append(@, call)]
    /\ pc' = "capRecvL"
    /\ UNCHANGED <<hist, left>>
    /\ UNCHANGED <<img_q, alive, call, stopRet, stopBehind, stopDead, workerLocal>>

\* self.right_tx.send(WorkerCmd::Capture).map_err(|_| ChannelSendError)?
capture_SendRight ==
    /\ pc = "capSendR"
    /\ IF Dead("R")
       THEN /\ Return(hist, ChannelErr("ChannelSendError"))
            /\ UNCHANGED <<cmd_q, sent>>
       ELSE /\ cmd_q' = [cmd_q EXCEPT !["R"] = Enqueue(@, Capture(call))]
            /\ sent' = [sent EXCEPT !["R"] = Append(@, call)]
            /\ pc' = "capRecvL"
            /\ UNCHANGED <<hist, left>>
    /\ UNCHANGED <<img_q, alive, call, stopRet, stopBehind, stopDead, workerLocal>>

\* mutant: try_recv in place of recv: with no left result queued yet the call
\* returns ChannelReceiveError at once
capture_RecvLeft_Try ==
    /\ pc = "capRecvL"
    /\ IF img_q["L"] # <<>>
       THEN LET m == Front(img_q["L"])
                h == [hist EXCEPT ![Len(hist)].lrecv = m]
            IN  /\ img_q' = [img_q EXCEPT !["L"] = Rest(@)]
                /\ IF IsOk(m)
                   THEN /\ left' = m
                        /\ hist' = h
                        /\ pc' = "capRecvR"
                   ELSE Return(h, WorkerErr(m))
       ELSE /\ Return(hist, ChannelErr("ChannelReceiveError"))
            /\ img_q' = img_q
    /\ UNCHANGED <<cmd_q, alive, call, stopRet, sent, stopBehind, stopDead, workerLocal>>

\* mutant: on a left error the right channel is drained (try_recv) before the
\* error is returned
capture_RecvLeft_Drain ==
    /\ pc = "capRecvL"
    /\ img_q["L"] # <<>> \/ Dead("L")
    /\ IF img_q["L"] # <<>>
       THEN LET m == Front(img_q["L"])
                h == [hist EXCEPT ![Len(hist)].lrecv = m]
            IN  IF IsOk(m)
                THEN /\ img_q' = [img_q EXCEPT !["L"] = Rest(@)]
                     /\ left' = m
                     /\ hist' = h
                     /\ pc' = "capRecvR"
                ELSE /\ img_q' = [s \in Sides |->
                                     IF s = "L" \/ img_q[s] # <<>>
                                     THEN Rest(img_q[s]) ELSE img_q[s]]
                     /\ Return(h, WorkerErr(m))
       ELSE /\ Return(hist, ChannelErr("ChannelReceiveError"))
            /\ img_q' = img_q
    /\ UNCHANGED <<cmd_q, alive, call, stopRet, sent, stopBehind, stopDead, workerLocal>>

\* let left = match self.left_rx.recv() { Ok(Ok(i)) => i,
\*     Ok(Err(e)) => return Err(e), Err(e) => return Err(ChannelReceiveError(e)) }
capture_RecvLeft ==
    /\ pc = "capRecvL"
    /\ img_q["L"] # <<>> \/ Dead("L")
    /\ IF img_q["L"] # <<>>
       THEN LET m == Front(img_q["L"])
                h == [hist EXCEPT ![Len(hist)].lrecv = m]
            IN  /\ img_q' = [img_q EXCEPT !["L"] = Rest(@)]
                /\ IF IsOk(m)
                   THEN /\ left' = m
                        /\ hist' = h
                        /\ pc' = "capRecvR"
                   ELSE Return(h, WorkerErr(m))
       ELSE /\ Return(hist, ChannelErr("ChannelReceiveError"))
            /\ img_q' = img_q
    /\ UNCHANGED <<cmd_q, alive, call, stopRet, sent, stopBehind, stopDead, workerLocal>>

\* mutant: the right result taken is the newest one queued, not the oldest
capture_RecvRight_Newest ==
    /\ pc = "capRecvR"
    /\ img_q["R"] # <<>> \/ Dead("R")
    /\ IF img_q["R"] # <<>>
       THEN LET m == Last(img_q["R"])
                h == [hist EXCEPT ![Len(hist)].rrecv = m]
            IN  /\ img_q' = [img_q EXCEPT !["R"] = SubSeq(@, 1, Len(@) - 1)]
                /\ IF IsOk(m)
                   THEN Return(h, StereoFrame(left, m))
                   ELSE Return(h, WorkerErr(m))
       ELSE /\ Return(hist, ChannelErr("ChannelReceiveError"))
            /\ img_q' = img_q
    /\ UNCHANGED <<cmd_q, alive, call, stopRet, sent, stopBehind, stopDead, workerLocal>>

\* mutant: a right error is read without being taken off the channel
capture_RecvRight_Peek ==
    /\ pc = "capRecvR"
    /\ img_q["R"] # <<>> \/ Dead("R")
    /\ IF img_q["R"] # <<>>
       THEN LET m == Front(img_q["R"])
                h == [hist EXCEPT ![Len(hist)].rrecv = m]
            IN  IF IsOk(m)
                THEN /\ img_q' = [img_q EXCEPT !["R"] = Rest(@)]
                     /\ Return(h, StereoFrame(left, m))
                ELSE /\ img_q' = img_q
                     /\ Return(h, WorkerErr(m))
       ELSE /\ Return(hist, ChannelErr("ChannelReceiveError"))
            /\ img_q' = img_q
    /\ UNCHANGED <<cmd_q, alive, call, stopRet, sent, stopBehind, stopDead, workerLocal>>

\* let right = match self.right_rx.recv() { .. }; Ok(StereoFrame { .. })
capture_RecvRight ==
    /\ pc = "capRecvR"
    /\ img_q["R"] # <<>> \/ Dead("R")
    /\ IF img_q["R"] # <<>>
       THEN LET m == Front(img_q["R"])
                h == [hist EXCEPT ![Len(hist)].rrecv = m]
            IN  /\ img_q' = [img_q EXCEPT !["R"] = Rest(@)]
                /\ IF IsOk(m)
                   THEN Return(h, StereoFrame(left, m))
                   ELSE Return(h, WorkerErr(m))
       ELSE /\ Return(hist, ChannelErr("ChannelReceiveError"))
            /\ img_q' = img_q
    /\ UNCHANGED <<cmd_q, alive, call, stopRet, sent, stopBehind, stopDead, workerLocal>>

\* stop() returns r: self is consumed, the channel ends and join handles it
\* still holds are dropped
StopReturn(r) ==
    /\ stopRet' = r
    /\ pc' = "gone"
    /\ alive' = FALSE
    /\ img_q' = [s \in Sides |-> <<>>]

\* self.left_tx.send(WorkerCmd::Stop).map_err(|_| ChannelSendError)?
stop_SendLeft ==
    /\ pc = "idle"
    /\ alive
    /\ stopDead' = \E s \in Sides : Dead(s)
    /\ IF Dead("L")
       THEN /\ StopReturn("ChannelSendError")
            /\ UNCHANGED <<cmd_q, stopBehind>>
       ELSE /\ cmd_q' = [cmd_q EXCEPT !["L"] = Enqueue(@, Stop)]
            /\ stopBehind' = [stopBehind EXCEPT !["L"] = Unfinished("L")]
            /\ pc' = "stopSendR"
            /\ UNCHANGED <<stopRet, alive, img_q>>
    /\ UNCHANGED <<call, left, hist, sent, workerLocal>>

\* mutant: stop() goes on to the joins without sending Stop to the right worker
stop_SendRight_Skip ==
    /\ pc = "stopSendR"
    /\ pc' = "stopJoinL"
    /\ UNCHANGED <<cmd_q, stopBehind, stopRet, alive, img_q>>
    /\ UNCHANGED <<call, left, hist, sent, stopDead, workerLocal>>

\* self.right_tx.send(WorkerCmd::Stop).map_err(|_| ChannelSendError)?
stop_SendRight ==
    /\ pc = "stopSendR"
    /\ IF Dead("R")
       THEN /\ StopReturn("ChannelSendError")
            /\ UNCHANGED <<cmd_q, stopBehind>>
       ELSE /\ cmd_q' = [cmd_q EXCEPT !["R"] = Enqueue(@, Stop)]
            /\ stopBehind' = [stopBehind EXCEPT !["R"] = Unfinished("R")]
            /\ pc' = "stopJoinL"
            /\ UNCHANGED <<stopRet, alive, img_q>>
    /\ UNCHANGED <<call, left, hist, sent, stopDead, workerLocal>>

\* mutant: stop() returns once the left thread is joined; the right join is missing
stop_JoinLeft_Only ==
    /\ pc = "stopJoinL"
    /\ Dead("L")
    /\ IF wstate["L"] = "Panicked"
       THEN StopReturn("ThreadJoinError")
       ELSE StopReturn("Ok")
    /\ UNCHANGED <<cmd_q, call, left, hist, sent, stopBehind, stopDead, workerLocal>>

\* self.left_jh.join().map_err(|_| ThreadJoinError)?
stop_JoinLeft ==
    /\ pc = "stopJoinL"
    /\ Dead("L")
    /\ IF wstate["L"] = "Panicked"
       THEN StopReturn("ThreadJoinError")
       ELSE /\ pc' = "stopJoinR"
            /\ UNCHANGED <<stopRet, alive, img_q>>
    /\ UNCHANGED <<cmd_q, call, left, hist, sent, stopBehind, stopDead, workerLocal>>

\* self.right_jh.join().map_err(|_| ThreadJoinError)?; Ok(())
stop_JoinRight ==
    /\ pc = "stopJoinR"
    /\ Dead("R")
    /\ IF wstate["R"] = "Panicked"
       THEN StopReturn("ThreadJoinError")
       ELSE StopReturn("Ok")
    /\ UNCHANGED <<cmd_q, call, left, hist, sent, stopBehind, stopDead, workerLocal>>

\* the StereoCamStream goes out of scope without stop(): the command senders,
\* the result receivers and the join handles are dropped
Drop ==
    /\ pc = "idle"
    /\ alive
    /\ pc' = "gone"
    /\ alive' = FALSE
    /\ img_q' = [s \in Sides |-> <<>>]
    /\ UNCHANGED <<cmd_q, call, left, stopRet, hist, sent, stopBehind, stopDead,
                   workerLocal>>

\* ---------------------------------------------------------- specifications

Worker(s) ==
    \/ img_cap_thread_RecvCapture(s)
    \/ img_cap_thread_RecvStop(s)
    \/ img_cap_thread_RecvClosed(s)
    \/ img_cap_thread_CaptureFail(s)
    \/ img_cap_thread_DecodeFail(s)
    \/ img_cap_thread_SendImage(s)

Coordinator ==
    \/ capture_SendLeft
    \/ capture_SendRight
    \/ capture_RecvLeft
    \/ capture_RecvRight
    \/ stop_SendLeft
    \/ stop_SendRight
    \/ stop_JoinLeft
    \/ stop_JoinRight
    \/ Drop

Next == Coordinator \/ \E s \in Sides : Worker(s)

\* cameras whose calls always return, no panics in the external calls
Spec == Init /\ [][Next]_vars

\* a worker thread may panic inside an external call of its loop body
NextFault == Next \/ \E s \in Sides : img_cap_thread_Panic(s)

SpecFault == Init /\ [][NextFault]_vars

\* a camera's acquisition call may never return
NextHang == Next \/ \E s \in Sides : CameraHang(s)

SpecHang == Init /\ [][NextHang]_vars

\* the scheduler runs every thread that can take a step: each worker, and the
\* caller's thread inside capture()
Fairness ==
    /\ \A s \in Sides : WF_vars(Worker(s))
    /\ WF_vars(capture_SendRight)
    /\ WF_vars(capture_RecvLeft)
    /\ WF_vars(capture_RecvRight)

SpecFair == Init /\ [][Next]_vars /\ Fairness

\* the caller's thread also runs while it is inside stop()
FairnessStop ==
    /\ Fairness
    /\ WF_vars(stop_SendRight)
    /\ WF_vars(stop_JoinLeft)
    /\ WF_vars(stop_JoinRight)

SpecFairStop == Init /\ [][Next]_vars /\ FairnessStop

\* ------------------------------------------------------------ properties

\* the calls that have returned
Returned == {c \in 1..Len(hist) : hist[c].ret.kind # "Pending"}

\* call c returned the left worker's error
LeftErr(c) == hist[c].lrecv # NoMsg /\ ~IsOk(hist[c].lrecv)

\* the result worker s produced for the Capture command of call c
HasResult(s, c) == \E k \in 1..Len(produced[s]) : sent[s][k] = c
ResultOf(s, c) == produced[s][CHOOSE k \in 1..Len(produced[s]) : sent[s][k] = c]

Kinds(q) == {q[k].kind : k \in 1..Len(q)}

\* C1: per worker, commands are serviced one at a time and in order: the k-th
\* result message the worker ever sent belongs to the k-th Capture command it
\* was sent, every Capture command is either still queued, in service, or has
\* produced exactly one message, so a worker that is Idle with an empty
\* command queue has produced exactly as many messages as Captures were sent.
C1_WorkerFifo ==
    \A s \in Sides :
        /\ Len(produced[s]) <= Len(sent[s])
        /\ \A k \in 1..Len(produced[s]) :
              produced[s][k].call = sent[s][k] /\ produced[s][k].side = s
        /\ ~Dead(s) =>
              /\ Len(produced[s]) + Captures(cmd_q[s])
                    + (IF wstate[s] = "Capturing" THEN 1 ELSE 0) = Len(sent[s])
              /\ wstate[s] = "Capturing" => wcur[s] = sent[s][Len(produced[s]) + 1]
              /\ wstate[s] = "Idle" /\ cmd_q[s] = <<>> =>
                    Len(produced[s]) = Len(sent[s])

\* three commands serviced by the right worker, one of each outcome
C1_Witness ==
    /\ wstate["R"] = "Idle" /\ cmd_q["R"] = <<>>
    /\ Len(sent["R"]) = 3 /\ Len(produced["R"]) = 3
    /\ Kinds(produced["R"]) = {"Ok", "CameraCaptureError", "ImageConversionError"}

\* C2: as long as no earlier capture() call returned an error, a call that
\* returns a StereoFrame returns the left worker's image and timestamp for
\* this very call as left/left_timestamp and the right worker's for this very
\* call as right/right_timestamp.
C2_FrameIsThisCalls ==
    \A c \in Returned :
        (hist[c].ret.kind = "Frame" /\ \A j \in 1..(c - 1) : hist[j].ret.kind = "Frame")
        => /\ HasResult("L", c) /\ HasResult("R", c)
           /\ hist[c].ret.left = <<"L", c>>
           /\ hist[c].ret.right = <<"R", c>>
           /\ hist[c].ret.left_timestamp = ResultOf("L", c).ts
           /\ hist[c].ret.right_timestamp = ResultOf("R", c).ts

\* the second of two successful calls, with different timestamps left and right
C2_Witness ==
    /\ 2 \in Returned
    /\ hist[1].ret.kind = "Frame" /\ hist[2].ret.kind = "Frame"
    /\ hist[2].ret.left_timestamp # hist[2].ret.right_timestamp
    /\ hist[2].ret.left_timestamp # hist[1].ret.left_timestamp

\* C3: the step in which capture() receives an error as the left result
\* returns exactly that error in that same step, without taking anything
\* from the right result channel.
C3_LeftErrorReturnsAtOnce ==
    [][ (/\ pc = "capRecvL" /\ pc' # "capRecvL"
         /\ img_q["L"] # <<>> /\ ~IsOk(Front(img_q["L"])))
        => /\ pc' = "idle"
           /\ hist'[call].ret = WorkerErr(Front(img_q["L"]))
           /\ hist'[call].rrecv = NoMsg
           /\ img_q'["R"] = img_q["R"] ]_vars

\* capture() has returned the left error while the right worker is still
\* servicing this call's Capture command
C3_Witness ==
    /\ pc = "idle" /\ call \in Returned
    /\ LeftErr(call) /\ hist[call].ret = WorkerErr(hist[call].lrecv)
    /\ wstate["R"] = "Capturing" /\ wcur["R"] = call

\* number of calls before call c that returned the left worker's error
LeftErrsBefore(c) == Cardinality({j \in 1..(c - 1) : LeftErr(j)})

\* number of right results capture() has consumed so far
RightConsumed == Cardinality({c \in 1..Len(hist) : hist[c].rrecv # NoMsg})

\* C4 (as stated): whenever a call f returned the left error and c is the
\* next call whose left result is Ok, the right result c takes is the one
\* produced for call f.
C4_NextCallTakesThatMessage ==
    \A f \in 1..Len(hist) : \A c \in (f + 1)..Len(hist) :
        (/\ LeftErr(f)
         /\ \A j \in (f + 1)..(c - 1) : LeftErr(j)
         /\ hist[c].rrecv # NoMsg)
        => hist[c].rrecv.call = f

\* C4 (amended): a call that returns the left error consumes no right
\* result; the right results not yet consumed stay queued in order in the
\* right result channel; and every call c that receives a right result
\* receives the oldest one queued, which belongs to call c - e, e being the
\* number of earlier calls that returned the left error: once a call has
\* returned the left error it is an earlier call's result, never its own.
C4_StaleRightResult ==
    /\ \A c \in 1..Len(hist) :
          /\ LeftErr(c) => hist[c].rrecv = NoMsg
          /\ hist[c].rrecv # NoMsg =>
                /\ hist[c].rrecv.side = "R"
                /\ hist[c].rrecv.call = c - LeftErrsBefore(c)
                /\ hist[c].ret.kind = "Frame" => hist[c].ret.right = <<"R", c - LeftErrsBefore(c)>>
    /\ alive => img_q["R"] = SubSeq(produced["R"], RightConsumed + 1, Len(produced["R"]))

\* two calls returned the left error, the third takes the first call's right result
C4_Witness ==
    /\ 3 \in Returned
    /\ LeftErr(1) /\ LeftErr(2)
    /\ hist[3].ret.kind = "Frame"
    /\ hist[3].ret.right = <<"R", 1>>
    /\ hist[3].ret.left = <<"L", 3>>

\* the worker thread leaves its loop in this step
Leaves(s) == ~Dead(s) /\ Dead(s)'

C6_Synchronous ==
    (pc = "idle" /\ call \in Returned /\ hist[call].ret.kind = "Frame")
    => /\ hist[call].lrecv.call = call
       /\ hist[call].rrecv.call = call
       /\ \A s \in Sides : wstate[s] = "Idle" /\ cmd_q[s] = <<>>

\* C7: when stop() has returned Ok, each worker has received exactly one Stop
\* and both threads are Terminated; once stop() has returned (with any
\* value) the stream is gone: no capture() and no stop() follows.
C7_StopJoinsBoth ==
    /\ [](stopRet = "Ok" =>
            \A s \in Sides : stops[s] = 1 /\ wstate[s] = "Terminated")
    /\ [](stopRet # "none" => pc = "gone" /\ ~alive)
    /\ [][pc = "gone" =>
            pc' = "gone" /\ call' = call /\ hist' = hist /\ stopRet' = stopRet]_vars

\* stop() returned Ok after sending Stop behind a Capture the right worker
\* had not finished
C7_Witness ==
    /\ stopRet = "Ok"
    /\ stopBehind["R"] >= 1 /\ stopBehind["L"] = 0
    /\ call >= 2

\* C8: a worker receives Stop only while Idle and only as the oldest queued
\* command, when every Capture command sent to it has already produced its
\* result message: a Capture in service or queued before the Stop is never
\* cut short by it.
C8_StopBetweenCommands ==
    [][ \A s \in Sides :
          stops'[s] # stops[s]
          => /\ wstate[s] = "Idle" /\ wstate'[s] = "Terminated"
             /\ Front(cmd_q[s]) = Stop
             /\ Unfinished(s) = 0
             /\ stops[s] = 0 ]_vars

\* Stop was sent while two Captures of the right worker were unfinished; it
\* has terminated by Stop after producing all its results
C8_Witness ==
    /\ wstate["R"] = "Terminated" /\ stops["R"] = 1
    /\ stopBehind["R"] >= 2
    /\ Len(produced["R"]) = Len(sent["R"])

\* C9: once a worker thread is over, every capture() called afterwards
\* returns ChannelSendError or ChannelReceiveError and never a StereoFrame,
\* every later call finds it over as well, and a stop() called afterwards
\* returns ChannelSendError or ThreadJoinError.
C9_CommunicationFailureTerminal ==
    /\ \A c \in 1..Len(hist) :
          hist[c].dead =>
            /\ hist[c].ret.kind \in {"Pending", "Err"}
            /\ hist[c].ret.kind = "Err" =>
                  hist[c].ret.err \in {"ChannelSendError", "ChannelReceiveError"}
            /\ \A d \in c..Len(hist) : hist[d].dead
    /\ (stopDead /\ stopRet # "none") =>
          stopRet \in {"ChannelSendError", "ThreadJoinError"}

\* the right worker panicked; a later capture() returned ChannelSendError and
\* the stop() after it returned ChannelSendError
C9_Witness ==
    /\ wstate["R"] = "Panicked"
    /\ \E c \in Returned : hist[c].dead /\ hist[c].ret.err = "ChannelSendError"
    /\ stopDead /\ stopRet = "ChannelSendError"

\* the coordinator is inside capture()
InCapture == pc \in {"capSendR", "capRecvL", "capRecvR"}

\* C10 (as stated): once the acquisition of either worker hangs, that worker
\* stays Capturing and a capture() call that is in progress, or is issued
\* later, never returns.
C10_HungCameraBlocksCapture ==
    [][ \A s \in Sides :
          camHung[s] => /\ wstate'[s] = "Capturing"
                        /\ InCapture => InCapture' ]_vars

\* ================================================== StereoStreamBuilder

\* setter calls made on one builder before build()
MaxSetterCalls == 3

\* device paths a caller may pass; the last one does not exist
Paths == {"/dev/video0", "/dev/video2", "/dev/absent"}
Exists(p) == p # "/dev/absent"

\* FourCC codes a caller may pass; the last one is not valid UTF-8
FourCCs == {"MJPG", "YUYV", "H264", "\\xFFJPG"}
IsUtf8(f) == f # "\\xFFJPG"

Intervals == {<<1, 10>>, <<1, 30>>}
Resolutions == {<<640, 480>>, <<1280, 720>>}
Fields == {"FIELD_NONE", "FIELD_INTERLACED"}
NumBuffers == {2, 4}

\* fn format_from_fourcc: b"MJPG" => Some(ImageFormat::Jpeg), _ => None
format_from_fourcc(format) == IF format = "MJPG" THEN "Jpeg" ELSE "None"

Configuring == builder.state = "open" /\ builder.ncalls < MaxSetterCalls

Called(b) == [b EXCEPT !.ncalls = @ + 1]

\* a builder method returned Err(e): the builder it consumed is gone
Failed(b, e) == [b EXCEPT !.state = "err", !.err = e]

\* a builder method panicked
Panicked(b) == [b EXCEPT !.state = "panic"]

\* CamStreamBuilder::new().stereo()
stereo ==
    /\ builder.state = "none"
    /\ builder' = [NoBuilder EXCEPT !.state = "open"]
    /\ UNCHANGED <<streamVars, rect>>

\* StereoStreamBuilder::left_path
left_path(path) ==
    /\ Configuring
    /\ builder' = IF Exists(path)
                  THEN [Called(builder) EXCEPT !.left_path = path]
                  ELSE Failed(Called(builder), "FileNotFound")
    /\ UNCHANGED <<streamVars, rect>>

\* StereoStreamBuilder::right_path
right_path(path) ==
    /\ Configuring
    /\ builder' = IF Exists(path)
                  THEN [Called(builder) EXCEPT !.right_path = path]
                  ELSE Failed(Called(builder), "FileNotFound")
    /\ UNCHANGED <<streamVars, rect>>

\* StereoStreamBuilder::interval
interval(v) ==
    /\ Configuring
    /\ builder' = [Called(builder) EXCEPT !.left_config.interval = v,
                                          !.right_config.interval = v]
    /\ UNCHANGED <<streamVars, rect>>

\* mutant: the resolution reaches the left configuration only
resolution_LeftOnly(v) ==
    /\ Configuring
    /\ builder' = [Called(builder) EXCEPT !.left_config.resolution = v]
    /\ UNCHANGED <<streamVars, rect>>

\* StereoStreamBuilder::resolution
resolution(v) ==
    /\ Configuring
    /\ builder' = [Called(builder) EXCEPT !.left_config.resolution = v,
                                          !.right_config.resolution = v]
    /\ UNCHANGED <<streamVars, rect>>

\* StereoStreamBuilder::format: img_format is assigned first; an unknown code
\* returns ImageFormatError, whose message is built by
\* String::from_utf8(..).unwrap(), a panic when the code is not UTF-8
format(f) ==
    /\ Configuring
    /\ LET b == [Called(builder) EXCEPT !.img_format = format_from_fourcc(f)]
       IN  builder' =
             IF b.img_format = "None"
             THEN IF IsUtf8(f) THEN Failed(b, "ImageFormatError") ELSE Panicked(b)
             ELSE [b EXCEPT !.left_config.format = f, !.right_config.format = f]
    /\ UNCHANGED <<streamVars, rect>>

\* StereoStreamBuilder::field
field(v) ==
    /\ Configuring
    /\ builder' = [Called(builder) EXCEPT !.left_config.field = v,
                                          !.right_config.field = v]
    /\ UNCHANGED <<streamVars, rect>>

\* StereoStreamBuilder::num_buffers
num_buffers(v) ==
    /\ Configuring
    /\ builder' = [Called(builder) EXCEPT !.left_config.nbuffers = v,
                                          !.right_config.nbuffers = v]
    /\ UNCHANGED <<streamVars, rect>>

\* mutant: build() goes on to open the cameras although a path is missing
build_NoPathCheck ==
    /\ builder.state = "open"
    /\ builder' = [builder EXCEPT !.state = "builderr", !.err = "CamStreamBuildError",
                                  !.opened = {"L"}]
    /\ UNCHANGED <<streamVars, rect>>

\* StereoStreamBuilder::build.  lo, ro: rscam::Camera::new succeeds for the
\* left, right device; ls, rs: Camera::start succeeds.  opened and started
\* record the cameras build() has tried to open and to start.
build ==
    /\ builder.state = "open"
    /\ \E lo \in BOOLEAN, ro \in BOOLEAN, ls \in BOOLEAN, rs \in BOOLEAN :
         builder' =
           IF builder.left_path = "None" \/ builder.right_path = "None"
           THEN [builder EXCEPT !.state = "builderr", !.err = "CamStreamBuildError"]
           ELSE IF ~lo
           THEN [builder EXCEPT !.state = "builderr", !.err = "CamStreamBuildError",
                                !.opened = {"L"}]
           ELSE IF ~ro
           THEN [builder EXCEPT !.state = "builderr", !.err = "CamStreamBuildError",
                                !.opened = {"L", "R"}]
           ELSE IF ~ls
           THEN [builder EXCEPT !.state = "builderr", !.err = "CamStartError",
                                !.opened = {"L", "R"}, !.started = {"L"}]
           ELSE IF ~rs
           THEN [builder EXCEPT !.state = "builderr", !.err = "CamStartError",
                                !.opened = {"L", "R"}, !.started = {"L", "R"}]
           ELSE IF builder.img_format = "None"
           THEN [builder EXCEPT !.state = "buildpanic",
                                !.opened = {"L", "R"}, !.started = {"L", "R"}]
           ELSE [builder EXCEPT !.state = "built", !.spawned = TRUE,
                                !.opened = {"L", "R"}, !.started = {"L", "R"}]
    /\ UNCHANGED <<streamVars, rect>>

NextBuild ==
    \/ stereo
    \/ \E p \in Paths : left_path(p)
    \/ \E p \in Paths : right_path(p)
    \/ \E v \in Intervals : interval(v)
    \/ \E v \in Resolutions : resolution(v)
    \/ \E f \in FourCCs : format(f)
    \/ \E v \in Fields : field(v)
    \/ \E v \in NumBuffers : num_buffers(v)
    \/ build

SpecBuild == Init /\ [][NextBuild]_vars

\* build() has been called and is over
BuildOver == builder.state \in {"builderr", "buildpanic", "built"}

\* C11 (as stated): build() never opens or starts a camera, and never
\* panics, while the configured pixel-encoding code is not MJPG (the default
\* code included); it fails with ImageFormatError instead; and format() never
\* panics either.
C11_UnsupportedFormatRejected ==
    /\ builder.state \notin {"panic", "buildpanic"}
    /\ (BuildOver /\ builder.left_config.format # "MJPG")
       => /\ builder.opened = {} /\ builder.started = {}
          /\ (builder.left_path # "None" /\ builder.right_path # "None")
             => builder.err = "ImageFormatError"

\* C12: build() with left_path or right_path unset returns
\* CamStreamBuildError without any camera opened or started and without a
\* worker thread; a path is stored only if it exists, and a setter given a
\* path that does not exist returns FileNotFound.
C12_MissingPath ==
    /\ [](/\ (BuildOver /\ (builder.left_path = "None" \/ builder.right_path = "None"))
             => /\ builder.state = "builderr" /\ builder.err = "CamStreamBuildError"
                /\ builder.opened = {} /\ builder.started = {} /\ ~builder.spawned
          /\ builder.left_path # "None" => Exists(builder.left_path)
          /\ builder.right_path # "None" => Exists(builder.right_path))
    /\ [][ \A p \in Paths :
             ((left_path(p) \/ right_path(p)) /\ ~Exists(p))
             => /\ builder'.state = "err" /\ builder'.err = "FileNotFound"
                /\ builder'.left_path = builder.left_path
                /\ builder'.right_path = builder.right_path ]_vars

\* build() was called with the left path set and the right path missing
C12_Witness ==
    /\ builder.state = "builderr" /\ builder.err = "CamStreamBuildError"
    /\ builder.left_path = "/dev/video0" /\ builder.right_path = "None"
    /\ builder.opened = {}

\* ================================================== rectification.rs

\* f64 and f32 values are modelled by exact rationals <<numerator, denominator>>
\* in lowest terms with a positive denominator; rounding error is left out.
Abs(n) == IF n < 0 THEN -n ELSE n

RECURSIVE GCD(_, _)
GCD(a, b) == IF b = 0 THEN a ELSE GCD(b, a % b)

Q(n, d) ==
    LET s == IF d < 0 THEN -1 ELSE 1
        g == GCD(Abs(n), Abs(d))
    IN  <<(s * n) \div g, (s * d) \div g>>

QInt(n) == <<n, 1>>
QAdd(a, b) == Q(a[1] * b[2] + b[1] * a[2], a[2] * b[2])
QSub(a, b) == Q(a[1] * b[2] - b[1] * a[2], a[2] * b[2])
QMul(a, b) == Q(a[1] * b[1], a[2] * b[2])
QDiv(a, b) == Q(a[1] * b[2], a[2] * b[1])
QLt(a, b) == a[1] * b[2] < b[1] * a[2]

\* f64::floor, for a value that is not negative also the cast `as usize`
QFloor(a) == a[1] \div a[2]

\* f64::fract of a value that is not negative
QFract(a) == QSub(a, QInt(QFloor(a)))

Zero == QInt(0)
Half == Q(1, 2)

\* ---- GrayFloatImage (crate::image).  An image is its size and its pixels;
\* the pixels are given by a pattern so that the inputs stay few.
MaxDim == 4

Dims == 1..MaxDim

Patterns == {"black", "grey", "white", "ramp"}

Images == [width : Dims, height : Dims, pattern : Patterns]

InImage(img, x, y) == x \in 0..(img.width - 1) /\ y \in 0..(img.height - 1)

\* GrayFloatImage::get
get(img, x, y) ==
    CASE img.pattern = "black" -> Zero
      [] img.pattern = "grey" -> Half
      [] img.pattern = "white" -> QInt(1)
      [] OTHER -> Q((x + 2 * y) % 4, 4)

\* GrayFloatImage::new(width, height): every pixel 0.0
NewImage(w, h) == [xy \in (0..(w - 1)) \X (0..(h - 1)) |-> Zero]

\* ---- RectifParams
\* k1: Option<f64>
NoK1 == <<>>
Some(v) == <<v>>

RectifParams ==
    [focals : {<<QInt(1), QInt(1)>>, <<QInt(2), QInt(1)>>},
     principal_point : {<<Q(w, 2), Q(h, 2)>> : w \in Dims, h \in Dims}
                           \cup {<<Zero, Zero>>},
     skew : {Zero, QInt(1)},
     k1 : {NoK1, Some(Zero), Some(Q(1, 10))}]

\* mutant: the conversion succeeds whatever k1 is
to_pinhole_intrisics_Always(p) ==
    [ok |-> TRUE, focals |-> p.focals, principal_point |-> p.principal_point,
     skew |-> p.skew]

\* RectifParams::to_pinhole_intrisics
to_pinhole_intrisics(p) ==
    IF p.k1 = NoK1
    THEN [ok |-> TRUE, focals |-> p.focals, principal_point |-> p.principal_point,
          skew |-> p.skew]
    ELSE [ok |-> FALSE, err |-> "RectifToCamIntrisicsError", k1 |-> p.k1]

\* RectifParams::to_pinhole_intrisics_k1
to_pinhole_intrisics_k1(p) ==
    IF p.k1 # NoK1
    THEN [ok |-> TRUE,
          simple_intrinsics |-> [focals |-> p.focals,
                                 principal_point |-> p.principal_point,
                                 skew |-> p.skew],
          k1 |-> p.k1[1]]
    ELSE [ok |-> FALSE, err |-> "RectifToCamIntrisicsK1DistortionError"]

\* cv_pinhole CameraIntrinsics::calibrate: pixel coordinates to normalised
\* image coordinates
calibrate(i, pt) ==
    LET yn == QDiv(QSub(pt[2], i.principal_point[2]), i.focals[2])
        xn == QDiv(QSub(QSub(pt[1], i.principal_point[1]), QMul(i.skew, yn)),
                   i.focals[1])
    IN  <<xn, yn>>

\* cv_pinhole CameraIntrinsics::uncalibrate: the inverse map
uncalibrate(i, n) ==
    <<QAdd(QAdd(QMul(i.focals[1], n[1]), QMul(i.skew, n[2])), i.principal_point[1]),
      QAdd(QMul(i.focals[2], n[2]), i.principal_point[2])>>

\* fn image_xy_to_normkp
image_xy_to_normkp(x, y, width, height, tl_normkp, br_normkp) ==
    LET nw == QSub(tl_normkp[1], br_normkp[1])
        nh == QSub(tl_normkp[2], br_normkp[2])
        nhx == QDiv(nw, QInt(width))
        nhy == QDiv(nh, QInt(height))
    IN  <<QSub(tl_normkp[1], QMul(nhx, QAdd(QInt(x), Half))),
          QSub(tl_normkp[2], QMul(nhy, QAdd(QInt(y), Half)))>>

\* the first guard of linterp_pixels: a negative coordinate
Negative(kp) == QLt(kp[1], Zero) \/ QLt(kp[2], Zero)

\* mutant: the edge guard lets the last column and the last row through
OnEdge_Last(kp, img) ==
    QFloor(kp[1]) > img.width - 1 \/ QFloor(kp[2]) > img.height - 1

\* the second guard of linterp_pixels: no forward neighbour
OnEdge(kp, img) ==
    QFloor(kp[1]) >= img.width - 1 \/ QFloor(kp[2]) >= img.height - 1

\* the source pixels linterp_pixels reads with img.get
linterp_reads(kp, img) ==
    IF Negative(kp) \/ OnEdge(kp, img)
    THEN {}
    ELSE LET x == QFloor(kp[1])
             y == QFloor(kp[2])
         IN  {<<x, y>>, <<x + 1, y>>, <<x, y + 1>>}

\* mutant: standard bilinear interpolation, with the diagonal neighbour
linterp_pixels_Bilinear(kp, img) ==
    IF Negative(kp) THEN Zero
    ELSE IF OnEdge(kp, img) THEN Zero
    ELSE LET x == QFloor(kp[1])
             y == QFloor(kp[2])
             fx == QFract(kp[1])
             fy == QFract(kp[2])
             gx == QSub(QInt(1), fx)
             gy == QSub(QInt(1), fy)
         IN  QAdd(QAdd(QMul(get(img, x, y), QMul(gx, gy)),
                       QMul(get(img, x + 1, y), QMul(fx, gy))),
                  QAdd(QMul(get(img, x, y + 1), QMul(gx, fy)),
                       QMul(get(img, x + 1, y + 1), QMul(fx, fy))))

\* fn linterp_pixels
linterp_pixels(kp, img) ==
    IF Negative(kp) THEN Zero
    ELSE IF OnEdge(kp, img) THEN Zero
    ELSE LET x == QFloor(kp[1])
             y == QFloor(kp[2])
             fract_x == QFract(kp[1])
             fract_y == QFract(kp[2])
         IN  QMul(Half,
                  QAdd(QAdd(QMul(get(img, x, y),
                                 QSub(QSub(QInt(2), fract_x), fract_y)),
                            QMul(get(img, x + 1, y), fract_x)),
                       QMul(get(img, x, y + 1), fract_y)))

\* ---- the calls, as steps on the record rect

\* keypoint coordinates handed to linterp_pixels directly: halves from below
\* the image to beyond its far edge
KCoords == {Q(n, 2) : n \in (-1)..(2 * MaxDim + 1)}
KeyPoints == KCoords \X KCoords

\* images the K1 path is run on
MaxDimK1 == 2

\* CameraIntrinsicsK1Distortion::calibrate and ::uncalibrate (cv_pinhole)
\* bend the simple model's map by the radial term; the bend of a keypoint is
\* one of these displacements
Displacements == {<<Zero, Zero>>, <<Q(-1, 2), QInt(-1)>>}

RectifyInputs ==
    {in \in RectifParams \X Images :
        \/ in[1].k1 = NoK1
        \/ in[2].width <= MaxDimK1 /\ in[2].height <= MaxDimK1}

\* the functions keep nothing between calls: one call is followed from the
\* start
RectIdle == rect.pc = "idle"

\* both conversions applied to one parameter set
to_pinhole_call ==
    /\ RectIdle
    /\ \E p \in RectifParams :
         rect' = [pc |-> "conv", params |-> p,
                  simple |-> to_pinhole_intrisics(p),
                  k1res |-> to_pinhole_intrisics_k1(p)]
    /\ UNCHANGED <<streamVars, builder>>

\* linterp_pixels applied to one keypoint and image
linterp_call ==
    /\ RectIdle
    /\ \E kp \in KeyPoints, img \in Images :
         rect' = [pc |-> "interp", kp |-> kp, img |-> img,
                  px |-> linterp_pixels(kp, img),
                  reads |-> linterp_reads(kp, img)]
    /\ UNCHANGED <<streamVars, builder>>

\* mutant: rectify asks for the simple conversion whatever k1 is
rectify_match_Simple(p) ==
    LET c == to_pinhole_intrisics(p)
    IN  [path |-> "simple", ok |-> c.ok,
         intrinsics |-> IF c.ok
                        THEN [focals |-> c.focals,
                              principal_point |-> c.principal_point,
                              skew |-> c.skew]
                        ELSE <<>>]

\* match self.k1 in rectify: the arm taken, whether the conversion it asks
\* for is Ok, and the simple intrinsics the arm then works with
rectify_match(p) ==
    IF p.k1 # NoK1
    THEN LET c == to_pinhole_intrisics_k1(p)
         IN  [path |-> "k1", ok |-> c.ok,
              intrinsics |-> IF c.ok THEN c.simple_intrinsics ELSE <<>>]
    ELSE LET c == to_pinhole_intrisics(p)
         IN  [path |-> "simple", ok |-> c.ok,
              intrinsics |-> IF c.ok
                             THEN [focals |-> c.focals,
                                   principal_point |-> c.principal_point,
                                   skew |-> c.skew]
                             ELSE <<>>]

\* RectifParams::rectify up to the loops: the source image, the new image of
\* the same size, the intrinsics and the two corners; unwrap() of a
\* conversion that returned Err panics
rectify_Start ==
    /\ RectIdle
    /\ \E in \in RectifyInputs :
         LET p == in[1]
             img == in[2]
             m == rectify_match(p)
             i == m.intrinsics
         IN  rect' = IF ~m.ok
                     THEN [pc |-> "panic", params |-> p, img |-> img,
                           path |-> m.path]
                     ELSE [pc |-> "loop", params |-> p, img |-> img,
                           path |-> m.path,
                           width |-> img.width, height |-> img.height,
                           rect_img |-> NewImage(img.width, img.height),
                           writes |-> [xy \in (0..(img.width - 1)) \X (0..(img.height - 1)) |-> 0],
                           reads |-> {},
                           intrinsics |-> i,
                           tl_normkp |-> calibrate(i, <<Zero, Zero>>),
                           br_normkp |-> calibrate(i, <<QInt(img.width), QInt(img.height)>>),
                           x |-> 0, y |-> 0]
    /\ UNCHANGED <<streamVars, builder>>

\* the keypoint of destination pixel (x, y) under the simple model
SimpleKp(r) ==
    uncalibrate(r.intrinsics,
                image_xy_to_normkp(r.x, r.y, r.width, r.height,
                                   r.tl_normkp, r.br_normkp))

\* the loop counters after the body: for x in 0..width inside for y in 0..height
Advance(r) ==
    IF r.x + 1 < r.width THEN [r EXCEPT !.x = @ + 1]
    ELSE [r EXCEPT !.x = 0, !.y = @ + 1]

\* one pass of the loop body with keypoint kp
Body(r, kp) ==
    Advance([r EXCEPT !.rect_img[<<r.x, r.y>>] = linterp_pixels(kp, r.img),
                      !.writes[<<r.x, r.y>>] = @ + 1,
                      !.reads = @ \cup linterp_reads(kp, r.img)])

\* mutant: the loop body skips every second column
rectify_Pixel_Skip ==
    /\ rect.pc = "loop" /\ rect.y < rect.height
    /\ rect' = IF rect.x + 2 < rect.width
               THEN [Body(rect, SimpleKp(rect)) EXCEPT !.x = @ + 1]
               ELSE Body(rect, SimpleKp(rect))
    /\ UNCHANGED <<streamVars, builder>>

\* one pass of the loop body of rectify, on either arm of match self.k1
rectify_Pixel ==
    /\ rect.pc = "loop" /\ rect.y < rect.height
    /\ \E d \in Displacements :
         LET s == SimpleKp(rect)
             kp == IF rect.path = "simple" THEN s
                   ELSE <<QAdd(s[1], d[1]), QAdd(s[2], d[2])>>
         IN  rect' = Body(rect, kp)
    /\ UNCHANGED <<streamVars, builder>>

\* rectify returns rect_img
rectify_Return ==
    /\ rect.pc = "loop" /\ rect.y = rect.height
    /\ rect' = [rect EXCEPT !.pc = "done"]
    /\ UNCHANGED <<streamVars, builder>>

NextRect ==
    \/ to_pinhole_call
    \/ linterp_call
    \/ rectify_Start
    \/ rectify_Pixel
    \/ rectify_Return

SpecRect == Init /\ [][NextRect]_vars

\* C13: to_pinhole_intrisics is Ok exactly when k1 is None and
\* to_pinhole_intrisics_k1 is Ok exactly when k1 is Some, so exactly one of
\* them succeeds; the other returns its own error, and the successful one
\* carries focals, principal_point, skew (and k1) unchanged.
C13_ExactlyOneConversion ==
    rect.pc = "conv" =>
      LET p == rect.params
          s == rect.simple
          k == rect.k1res
      IN  /\ s.ok <=> p.k1 = NoK1
          /\ k.ok <=> p.k1 # NoK1
          /\ s.ok # k.ok
          /\ ~s.ok => s.err = "RectifToCamIntrisicsError"
          /\ ~k.ok => k.err = "RectifToCamIntrisicsK1DistortionError"
          /\ s.ok => /\ s.focals = p.focals
                     /\ s.principal_point = p.principal_point
                     /\ s.skew = p.skew
          /\ k.ok => /\ k.simple_intrinsics.focals = p.focals
                     /\ k.simple_intrinsics.principal_point = p.principal_point
                     /\ k.simple_intrinsics.skew = p.skew
                     /\ Some(k.k1) = p.k1

\* both conversions were applied to a parameter set with a k1 and a skew
C13_Witness ==
    /\ rect.pc = "conv"
    /\ rect.params.k1 = Some(Q(1, 10)) /\ rect.params.skew = QInt(1)
    /\ rect.k1res.ok /\ ~rect.simple.ok

\* C14: linterp_pixels returns exactly 0.0 whenever a coordinate of the
\* keypoint is negative or its floor is at or beyond the last column or row,
\* whatever the image holds there, and neither it nor rectify ever reads a
\* source pixel outside the image.
C14_EdgeGuardForcesBlack ==
    /\ (/\ rect.pc = "interp"
        /\ \/ QLt(rect.kp[1], Zero)
           \/ QLt(rect.kp[2], Zero)
           \/ QFloor(rect.kp[1]) >= rect.img.width - 1
           \/ QFloor(rect.kp[2]) >= rect.img.height - 1)
       => rect.px = Zero
    /\ rect.pc \in {"interp", "loop", "done"} =>
         \A xy \in rect.reads : InImage(rect.img, xy[1], xy[2])

\* the keypoint lies inside a white image, in its last column
C14_Witness ==
    /\ rect.pc = "interp"
    /\ rect.img = [width |-> 3, height |-> 3, pattern |-> "white"]
    /\ rect.kp = <<QInt(2), Half>>
    /\ rect.px = Zero

\* zero skew, focals 1, principal point at the image centre, no k1
IdentityLike(p, img) ==
    /\ p.focals = <<QInt(1), QInt(1)>>
    /\ p.skew = Zero
    /\ p.k1 = NoK1
    /\ p.principal_point = <<Q(img.width, 2), Q(img.height, 2)>>

Uniform(img) == img.pattern \in {"black", "grey", "white"}

\* C15 (as stated): rectify with identity-like intrinsics on a uniform image
\* of value v returns an image whose every pixel is v; so the 4x4 image of
\* 0.5 with principal point (2, 2) comes back with all 16 pixels 0.5.
C15_UniformIdentity ==
    (rect.pc = "done" /\ IdentityLike(rect.params, rect.img) /\ Uniform(rect.img))
    => \A xy \in DOMAIN rect.rect_img : rect.rect_img[xy] = get(rect.img, 0, 0)

\* every destination pixel before (x, y) in the order of the loops
Before(r, xy) == xy[2] < r.y \/ (xy[2] = r.y /\ xy[1] < r.x)

\* C16: the image rectify returns has the width and height of the source,
\* and every destination pixel is written exactly once: during the loops the
\* pixels passed have one write and the others none.
C16_SameSizeWrittenOnce ==
    rect.pc \in {"loop", "done"} =>
      /\ rect.width = rect.img.width /\ rect.height = rect.img.height
      /\ DOMAIN rect.rect_img = (0..(rect.img.width - 1)) \X (0..(rect.img.height - 1))
      /\ \A xy \in DOMAIN rect.writes :
           rect.writes[xy] = IF Before(rect, xy) THEN 1 ELSE 0
      /\ rect.pc = "done" => \A xy \in DOMAIN rect.writes : rect.writes[xy] = 1

\* rectify has returned for a 4x3 source
C16_Witness ==
    /\ rect.pc = "done"
    /\ rect.img.width = 4 /\ rect.img.height = 3
    /\ \A xy \in (0..3) \X (0..2) : rect.writes[xy] = 1

\* ================================================== capture(), continued

\* the Capture command of the call in progress has been sent to worker s
SentThisCall(s) == sent[s] # <<>> /\ Last(sent[s]) = call

\* C17: inside capture() the steps come in the order send left, send right,
\* receive left, receive right: when the left result is awaited both Capture
\* commands of the call are out and nothing has been received, when the right
\* result is awaited the left result is in hand, and no call has a right
\* result without a left one.
C17_StepOrder ==
    /\ pc = "capSendR" =>
         /\ SentThisCall("L") /\ ~SentThisCall("R")
         /\ hist[call].lrecv = NoMsg /\ hist[call].rrecv = NoMsg
    /\ pc = "capRecvL" =>
         /\ SentThisCall("L") /\ SentThisCall("R")
         /\ hist[call].lrecv = NoMsg /\ hist[call].rrecv = NoMsg
    /\ pc = "capRecvR" =>
         /\ SentThisCall("L") /\ SentThisCall("R")
         /\ hist[call].lrecv # NoMsg /\ IsOk(hist[call].lrecv) /\ left = hist[call].lrecv
         /\ hist[call].rrecv = NoMsg
    /\ \A c \in 1..Len(hist) :
         hist[c].rrecv # NoMsg => hist[c].lrecv # NoMsg /\ IsOk(hist[c].lrecv)

\* both workers are inside cam.capture() for the same call while the
\* coordinator awaits the left result
C17_Witness ==
    /\ pc = "capRecvL"
    /\ \A s \in Sides : wstate[s] = "Capturing" /\ wcur[s] = call

\* call c received Ok from the left worker and an error from the right worker
RightErr(c) ==
    /\ hist[c].lrecv # NoMsg /\ IsOk(hist[c].lrecv)
    /\ hist[c].rrecv # NoMsg /\ ~IsOk(hist[c].rrecv)

\* results queued for, or still owed to, the coordinator by worker s
Backlog(s) == Len(img_q[s]) + Unfinished(s)

\* C18: a call whose left result is Ok and whose right result is an error
\* returns that right error, having taken exactly one message off each result
\* channel; between calls the left channel owes nothing and the right channel
\* owes one result per call that returned the left error, so a right-side
\* failure leaves nothing behind.
C18_RightErrorLeavesNothing ==
    /\ [](/\ \A c \in 1..Len(hist) :
               RightErr(c) => /\ hist[c].ret = WorkerErr(hist[c].rrecv)
                              /\ hist[c].lrecv.call = c
          /\ (pc = "idle" /\ alive) =>
               /\ Backlog("L") = 0
               /\ Backlog("R") = Cardinality({c \in 1..Len(hist) : LeftErr(c)}))
    /\ [][ (/\ pc = "capRecvR"
            /\ img_q["R"] # <<>>
            /\ ~IsOk(Front(img_q["R"])))
           => (pc' = "capRecvR"
               \/ /\ pc' = "idle"
                  /\ hist'[call].ret = WorkerErr(Front(img_q["R"]))
                  /\ img_q'["R"] = Rest(img_q["R"])
                  /\ img_q'["L"] = img_q["L"]) ]_vars

\* the second call returned the right worker's error and nothing is queued
C18_Witness ==
    /\ pc = "idle" /\ alive /\ call = 2
    /\ RightErr(2) /\ hist[2].ret.kind = "Err"
    /\ hist[1].ret.kind = "Frame"
    /\ \A s \in Sides : img_q[s] = <<>> /\ Unfinished(s) = 0

\* C19: while no worker thread has ended, between capture() calls the left
\* result channel and the left command queue are empty and the left worker is
\* Idle, and the left result a call receives is the one produced for that
\* call's own Capture command.
C19_LeftNeverStale ==
    /\ (pc = "idle" /\ alive /\ \A s \in Sides : ~Dead(s)) =>
         /\ img_q["L"] = <<>>
         /\ cmd_q["L"] = <<>>
         /\ wstate["L"] = "Idle"
    /\ \A c \in 1..Len(hist) :
         (hist[c].lrecv # NoMsg /\ ~hist[c].dead) =>
            /\ hist[c].lrecv.side = "L"
            /\ hist[c].lrecv.call = c

\* three calls with a left error, a right error and a success have returned
C19_Witness ==
    /\ pc = "idle" /\ alive /\ call = 3
    /\ \A s \in Sides : ~Dead(s)
    /\ LeftErr(1) /\ RightErr(2) /\ hist[3].ret.kind = "Frame"
    /\ hist[3].lrecv.call = 3

\* C20: under fair scheduling, with cameras whose calls return, a capture()
\* call in progress always returns, with a frame or with an error, whatever
\* earlier calls left in the right channel.
C20_CaptureReturns ==
    InCapture ~> (/\ pc = "idle"
                  /\ call \in 1..Len(hist)
                  /\ hist[call].ret.kind \in {"Frame", "Err"})

\* a call returned its frame although two earlier calls had left their right
\* results behind
C20_Witness ==
    /\ pc = "idle" /\ call = 3
    /\ LeftErr(1) /\ LeftErr(2)
    /\ hist[3].ret.kind = "Frame"
    /\ Backlog("R") = 2

\* ================================================== stop() and drop, continued

\* the coordinator is inside stop()
InStop == pc \in {"stopSendR", "stopJoinL", "stopJoinR"}

\* C21: under fair scheduling, with cameras whose calls return, a stop() in
\* progress always returns, and returns Ok with both workers Terminated,
\* whatever the capture() calls before it left queued or in flight; while
\* stop() runs no worker panics on sending a result.
C21_StopReturnsOk ==
    /\ [](/\ InStop => \A s \in Sides : wstate[s] # "Panicked"
          /\ stopRet # "none" =>
               /\ stopRet = "Ok"
               /\ \A s \in Sides : wstate[s] = "Terminated")
    /\ InStop ~> (/\ pc = "gone"
                  /\ stopRet = "Ok"
                  /\ \A s \in Sides : wstate[s] = "Terminated")

\* stop() returned Ok right after a call that returned the left error, the
\* right worker still owing that call's result when Stop was sent to it
C21_Witness ==
    /\ pc = "gone" /\ stopRet = "Ok"
    /\ call = 1 /\ LeftErr(1)
    /\ stopBehind["R"] = 1
    /\ \A s \in Sides : wstate[s] = "Terminated"

\* the stream was dropped without stop()
Dropped == ~alive /\ stopRet = "none"

\* C22 (as stated): once the stream is dropped without stop(), no worker
\* sends a result to the dropped receiver and panics; each worker is running
\* or has left its loop normally.
C22_DropEndsWorkersNormally ==
    Dropped => \A s \in Sides : wstate[s] # "Panicked"

\* ================================================== timestamps

\* the calls that returned a StereoFrame
Frames == {c \in 1..Len(hist) : hist[c].ret.kind = "Frame"}

\* C23: with cameras whose timestamps never decrease, the left_timestamp
\* values of the StereoFrames returned by successive capture() calls never
\* decrease, and neither do the right_timestamp values, whatever errors the
\* calls in between returned.
C23_TimestampsNonDecreasing ==
    \A c \in Frames : \A d \in Frames :
        c < d => /\ hist[c].ret.left_timestamp <= hist[d].ret.left_timestamp
                 /\ hist[c].ret.right_timestamp <= hist[d].ret.right_timestamp

\* frames before and after a call that returned the left error, the later
\* frame's right image being the stale one with a later timestamp on each side
C23_Witness ==
    /\ Frames = {1, 3} /\ LeftErr(2)
    /\ hist[3].ret.right = <<"R", 2>>
    /\ hist[1].ret.left_timestamp < hist[3].ret.left_timestamp
    /\ hist[1].ret.right_timestamp < hist[3].ret.right_timestamp

\* ================================================== builder, continued

\* the builder is in the caller's hands, or build() has used its values
BuilderHeld == builder.state \in {"open", "builderr", "buildpanic", "built"}

\* C24: whatever setters were called on a builder, its left and right camera
\* configurations are equal, and img_format is set exactly when the
\* pixel-encoding code configured for both cameras is MJPG.
C24_ConfigsAgree ==
    BuilderHeld =>
      /\ builder.left_config = builder.right_config
      /\ builder.img_format # "None" <=>
           (builder.left_config.format = "MJPG" /\ builder.right_config.format = "MJPG")

\* three setters were called, the format among them
C24_Witness ==
    /\ builder.state = "open" /\ builder.ncalls = 3
    /\ builder.img_format = "Jpeg"
    /\ builder.left_config.format = "MJPG"
    /\ builder.left_config.resolution = <<1280, 720>>
    /\ builder.right_config.nbuffers = 4

\* ================================================== rectification, continued

\* C25: rectify takes the k1 arm exactly when k1 is present, the conversion
\* the arm asks for succeeds for every RectifParams, so the unwrap never
\* panics, and the intrinsics the loops run with are those of the parameters.
C25_RectifyPathMatches ==
    /\ rect.pc # "panic"
    /\ rect.pc \in {"loop", "done"} =>
         /\ rect.path = "k1" <=> rect.params.k1 # NoK1
         /\ rect.intrinsics.focals = rect.params.focals
         /\ rect.intrinsics.principal_point = rect.params.principal_point
         /\ rect.intrinsics.skew = rect.params.skew

\* rectify is inside the loops of its k1 arm
C25_Witness ==
    /\ rect.pc = "loop" /\ rect.path = "k1"
    /\ rect.params.k1 = Some(Q(1, 10))
    /\ rect.x = 1 /\ rect.y = 1

\* the keypoint of the linterp_pixels call passes both guards
PassesGuard ==
    /\ ~QLt(rect.kp[1], Zero) /\ ~QLt(rect.kp[2], Zero)
    /\ QFloor(rect.kp[1]) < rect.img.width - 1
    /\ QFloor(rect.kp[2]) < rect.img.height - 1

\* C26: for a keypoint that passes the edge guard, with floor (ix, iy) and
\* fractional parts (fx, fy), the pixel returned is
\* 0.5 * (p(ix,iy)*(2 - fx - fy) + p(ix+1,iy)*fx + p(ix,iy+1)*fy); the
\* diagonal neighbour is not read, the three weights sum to 1, and where the
\* three pixels read hold one value that value is returned.
C26_InterpolationFormula ==
    (rect.pc = "interp" /\ PassesGuard) =>
      LET ix == QFloor(rect.kp[1])
          iy == QFloor(rect.kp[2])
          fx == QSub(rect.kp[1], QInt(ix))
          fy == QSub(rect.kp[2], QInt(iy))
          w0 == QMul(Half, QSub(QSub(QInt(2), fx), fy))
          w1 == QMul(Half, fx)
          w2 == QMul(Half, fy)
          p0 == get(rect.img, ix, iy)
          p1 == get(rect.img, ix + 1, iy)
          p2 == get(rect.img, ix, iy + 1)
      IN  /\ rect.px = QAdd(QAdd(QMul(w0, p0), QMul(w1, p1)), QMul(w2, p2))
          /\ QAdd(QAdd(w0, w1), w2) = QInt(1)
          /\ rect.reads = {<<ix, iy>>, <<ix + 1, iy>>, <<ix, iy + 1>>}
          /\ <<ix + 1, iy + 1>> \notin rect.reads
          /\ (p0 = p1 /\ p1 = p2) => rect.px = p0

\* the keypoint (0.5, 0.5) of a 3x3 ramp: 0.5 * (0*1 + 0.25*0.5 + 0.5*0.5)
C26_Witness ==
    /\ rect.pc = "interp"
    /\ rect.img = [width |-> 3, height |-> 3, pattern |-> "ramp"]
    /\ rect.kp = <<Half, Half>>
    /\ rect.px = Q(3, 16)

====
